---- MODULE Spec2Model ----
(***************************************************************************)
(* A model of the legacy trading risk-management module                    *)
(* (Sample_Data_Files/sample_legacy_trading.cpp): the TradingRiskManager   *)
(* rule groups, its two per-trader counters, and main.                     *)
(*                                                                         *)
(* Numbers.  The code computes in double.  Every amount of the model is an *)
(* integer number of currency units far below 2^53, so sums and products   *)
(* are exact in double too.  A fractional threshold is kept as the exact   *)
(* ratio <<numerator, denominator>> and a comparison against it is made by *)
(* cross-multiplication; a quotient a / b is never formed, it is compared  *)
(* the way IEEE-754 compares it, the cases b = 0 (infinities, NaN)         *)
(* included.  volatility_score is counted in hundredths.                   *)
(*                                                                         *)
(* Output.  Each method prints lines to std::cout and returns a bool; a    *)
(* call is modelled by the record [ret, out] of the value returned and the *)
(* lines printed, in order.  ret = "true" is the spec's APPROVED, "false"  *)
(* its REJECTED.                                                           *)
(***************************************************************************)
EXTENDS Integers, Sequences, FiniteSets, Bags, TLC

VARIABLES
    daily_trade_counts, \* std::map<int,int>: trader id -> trades today
    daily_losses,       \* std::map<int,double>: trader id -> cumulative loss
    input,              \* the arguments drawn for the call under study
    call,               \* the last completed call of a method: arguments and result
    scaled,             \* validatePortfolioRisk of the last portfolio, scaled by a constant
    fp_trap,            \* whether the build traps a floating-point division by zero
    loss_bag,           \* history: the bag of <<trader_id, trade_loss>> passed so far
    trades_processed,   \* history: trader id -> orders validateTradeOrder admitted
    thr,                \* the concurrent callers of checkDailyLossLimits
    main                \* the position and locals of main

vars == <<daily_trade_counts, daily_losses, input, call, scaled, fp_trap, loss_bag,
          trades_processed, thr, main>>

----------------------------------------------------------------------------
(* Business rule constants                                                 *)

MAX_POSITION_SIZE == 10000000

MAX_DAILY_LOSS == 500000

MIN_ACCOUNT_BALANCE == 50000

MAX_LEVERAGE_RATIO == <<10, 1>>

HIGH_RISK_THRESHOLD == <<3, 4>>

MAX_TRADES_PER_DAY == 100

MARGIN_CALL_THRESHOLD == <<1, 4>>

FORCED_LIQUIDATION == <<1, 10>>

MIN_TRADING_EXPERIENCE == 2

MAX_ORDER_SIZE == 1000000

PATTERN_DAY_TRADER_LIMIT == 25000

----------------------------------------------------------------------------
(* Double arithmetic on exact values                                       *)

\* a > b * r, for a ratio r = <<n, d>> with d > 0
GtTimes(a, b, r) == a * r[2] > b * r[1]

\* a < b * r
LtTimes(a, b, r) == a * r[2] < b * r[1]

\* (a / b) > r as IEEE-754 decides it: a / 0 is +inf, -inf or NaN (for a = 0),
\* and every comparison with NaN is false
QuotGt(a, b, r) ==
    IF b = 0 THEN a > 0
    ELSE IF b > 0 THEN a * r[2] > r[1] * b
    ELSE a * r[2] < r[1] * b

\* (a / b) < r as IEEE-754 decides it
QuotLt(a, b, r) ==
    IF b = 0 THEN a < 0
    ELSE IF b > 0 THEN a * r[2] < r[1] * b
    ELSE a * r[2] > r[1] * b

\* std::map::operator[] for reading: an absent key reads as the value-initialised 0
MapGet(m, k) == IF k \in DOMAIN m THEN m[k] ELSE 0

\* std::map::operator[] inserts the absent key with value 0
MapTouch(m, k) == IF k \in DOMAIN m THEN m ELSE [x \in DOMAIN m \cup {k} |-> IF x = k THEN 0 ELSE m[x]]

\* m[k] = v
MapPut(m, k, v) == [x \in DOMAIN m \cup {k} |-> IF x = k THEN v ELSE m[x]]

EmptyMap == [x \in {} |-> 0]

Decision(ret, out) == [ret |-> ret, out |-> out]

----------------------------------------------------------------------------
(* validateTraderEligibility                                               *)

LacksExperience(trader) == trader.experience_years < MIN_TRADING_EXPERIENCE

InsufficientBalance_Dropped(trader) == FALSE

InsufficientBalance(trader) == trader.account_balance < MIN_ACCOUNT_BALANCE

RestrictedJurisdiction(trader) == trader.jurisdiction \in {"RESTRICTED", "SANCTIONED"}

LacksAccreditation(trader) == trader.risk_level = "HIGH" /\ ~trader.is_accredited

PatternDayTrader(trader) ==
    trader.trader_type = "RETAIL" /\ trader.account_balance < PATTERN_DAY_TRADER_LIMIT

PdtWarning == "WARNING: Pattern Day Trader restrictions apply"

validateTraderEligibility(trader) ==
    IF LacksExperience(trader)
    THEN Decision("false", <<"REJECTED: Trader lacks minimum experience">>)
    ELSE IF InsufficientBalance(trader)
    THEN Decision("false", <<"REJECTED: Insufficient account balance">>)
    ELSE IF RestrictedJurisdiction(trader)
    THEN Decision("false", <<"REJECTED: Trader from restricted jurisdiction">>)
    ELSE IF LacksAccreditation(trader)
    THEN Decision("false", <<"REJECTED: High-risk trading requires accreditation">>)
    ELSE Decision("true", IF PatternDayTrader(trader) THEN <<PdtWarning>> ELSE <<>>)

----------------------------------------------------------------------------
(* validateTradeOrder                                                      *)

OrderValue(order) == order.quantity * order.price

OrderSizeExceeded_TenMillion(order) == OrderValue(order) > 10 * MAX_ORDER_SIZE

OrderSizeExceeded(order) == OrderValue(order) > MAX_ORDER_SIZE

\* volatility_score > 0.8, the score in hundredths
HighVolatilityForLowRisk(order, trader) ==
    order.volatility_score > 80 /\ trader.risk_level = "LOW"

LargeRetailShort(order, trader) ==
    /\ order.order_type = "SHORT"
    /\ trader.trader_type = "RETAIL"
    /\ OrderValue(order) > 100000

\* available_margin < order_value * 0.5
InsufficientMargin(order, trader) ==
    order.is_margin_trade /\ LtTimes(trader.available_margin, OrderValue(order), <<1, 2>>)

DailyTradeLimitReached(counts, trader) ==
    MapGet(counts, trader.trader_id) >= MAX_TRADES_PER_DAY

AfterHoursInexperienced(order, trader) ==
    order.time_in_force = "EXTENDED_HOURS" /\ trader.experience_years < 5

SectorInfo(order) ==
    IF order.sector # "DIVERSIFIED"
    THEN <<"INFO: Checking sector concentration limits">>
    ELSE <<>>

\* The value returned and the lines printed, given the trade counts read.
validateTradeOrder(order, trader, counts) ==
    IF OrderSizeExceeded(order)
    THEN Decision("false", <<"REJECTED: Order size exceeds maximum allowed">>)
    ELSE IF HighVolatilityForLowRisk(order, trader)
    THEN Decision("false",
             <<"REJECTED: High volatility instrument not allowed for low-risk trader">>)
    ELSE IF LargeRetailShort(order, trader)
    THEN Decision("false",
             <<"REJECTED: Large short positions restricted for retail traders">>)
    ELSE IF InsufficientMargin(order, trader)
    THEN Decision("false", <<"REJECTED: Insufficient margin for trade">>)
    ELSE IF DailyTradeLimitReached(counts, trader)
    THEN Decision("false", <<"REJECTED: Daily trade limit exceeded">>)
    ELSE IF AfterHoursInexperienced(order, trader)
    THEN Decision("false", SectorInfo(order)
             \o <<"REJECTED: Insufficient experience for after-hours trading">>)
    ELSE Decision("true", SectorInfo(order))

\* The trade counts after the call: the read at the daily-limit check goes
\* through operator[], which inserts the trader's key when the check is reached.
\* Nothing in the class writes another value into daily_trade_counts.
TradeCountsAfter(order, trader, counts) ==
    IF \/ OrderSizeExceeded(order)
       \/ HighVolatilityForLowRisk(order, trader)
       \/ LargeRetailShort(order, trader)
       \/ InsufficientMargin(order, trader)
    THEN counts
    ELSE MapTouch(counts, trader.trader_id)

----------------------------------------------------------------------------
(* main's literals                                                         *)

SampleTrader ==
    [trader_id |-> 123, experience_years |-> 5, risk_level |-> "MEDIUM",
     account_balance |-> 250000, available_margin |-> 100000,
     trader_type |-> "RETAIL", is_accredited |-> TRUE, jurisdiction |-> "US"]

SampleOrder ==
    [order_id |-> 1001, order_type |-> "BUY", quantity |-> 1000, price |-> 150,
     time_in_force |-> "DAY", is_margin_trade |-> FALSE, sector |-> "TECHNOLOGY",
     volatility_score |-> 30]

----------------------------------------------------------------------------
(* The states before any call                                              *)

NoCall == [op |-> "none"]

NoThreads == [t \in {} |-> NoCall]

----------------------------------------------------------------------------
(* Spec: one call of validateTraderEligibility or of validateTradeOrder on *)
(* a new TradingRiskManager, for every choice of the arguments             *)

\* Inputs of validateTraderEligibility: every field it reads varies.
EligibilityTraders ==
    [trader_id : {123},
     experience_years : {1, 2, 5},
     risk_level : {"LOW", "MEDIUM", "HIGH"},
     account_balance : {0, 20000, 25000, 49999, 50000, 250000},
     available_margin : {100000},
     trader_type : {"RETAIL", "INSTITUTIONAL"},
     is_accredited : BOOLEAN,
     jurisdiction : {"US", "RESTRICTED", "SANCTIONED"}]

\* Inputs of validateTradeOrder: every field it reads varies.
OrderTraders ==
    [trader_id : {123, 456},
     experience_years : {2, 5},
     risk_level : {"LOW", "MEDIUM"},
     account_balance : {250000},
     available_margin : {50000, 100000},
     trader_type : {"RETAIL", "INSTITUTIONAL"},
     is_accredited : {TRUE},
     jurisdiction : {"US"}]

Orders ==
    [order_id : {1001},
     order_type : {"BUY", "SHORT"},
     quantity : {-1000, 1000, 10000},
     price : {-150, 150},
     time_in_force : {"DAY", "EXTENDED_HOURS"},
     is_margin_trade : BOOLEAN,
     sector : {"TECHNOLOGY", "DIVERSIFIED"},
     volatility_score : {30, 90}]

ValidateTraderEligibility ==
    /\ input.op = "validateTraderEligibility"
    /\ call = NoCall
    /\ LET d == validateTraderEligibility(input.trader) IN
           call' = [op |-> "validateTraderEligibility", trader |-> input.trader,
                    ret |-> d.ret, out |-> d.out]
    /\ UNCHANGED <<daily_trade_counts, daily_losses, input, scaled, fp_trap, loss_bag,
                   trades_processed, thr, main>>

\* One call of validateTradeOrder: the result, and the key operator[] inserts.
CallValidateTradeOrder(order, trader) ==
    LET d == validateTradeOrder(order, trader, daily_trade_counts) IN
    /\ call' = [op |-> "validateTradeOrder", order |-> order, trader |-> trader,
                ret |-> d.ret, out |-> d.out,
                admitted_before |-> MapGet(trades_processed, trader.trader_id)]
    /\ daily_trade_counts' = TradeCountsAfter(order, trader, daily_trade_counts)
    /\ UNCHANGED <<daily_losses, input, scaled, fp_trap, loss_bag, thr, main>>

ValidateTradeOrder ==
    /\ input.op = "validateTradeOrder"
    /\ call = NoCall
    /\ CallValidateTradeOrder(input.order, input.trader)
    /\ UNCHANGED trades_processed

Init ==
    /\ input \in [op : {"validateTraderEligibility"}, trader : EligibilityTraders]
                 \cup [op : {"validateTradeOrder"}, order : Orders, trader : OrderTraders]
    /\ daily_trade_counts = EmptyMap
    /\ daily_losses = EmptyMap
    /\ call = NoCall
    /\ scaled = NoCall
    /\ fp_trap = FALSE
    /\ loss_bag = EmptyBag
    /\ trades_processed = EmptyMap
    /\ thr = NoThreads
    /\ main = [pc |-> "idle"]

Next == ValidateTraderEligibility \/ ValidateTradeOrder

Spec == Init /\ [][Next]_vars

\* C1: every order whose order_value (quantity x price) is greater than
\* 1,000,000 is rejected by validateTradeOrder, whatever the other order
\* fields, the trader and the trade counts are.
C1_LargeOrderRejected ==
    (call.op = "validateTradeOrder" /\ call.order.quantity * call.order.price > 1000000)
        => call.ret = "false"

\* C1 witness: an order of value 1,500,000 that no other rule of the group
\* rejects has been evaluated and rejected for its size.
C1_Witness ==
    /\ call.op = "validateTradeOrder"
    /\ call.order.quantity * call.order.price = 1500000
    /\ call.trader = SampleTrader
    /\ call.order.order_type = "BUY"
    /\ ~call.order.is_margin_trade
    /\ call.order.time_in_force = "DAY"
    /\ call.out = <<"REJECTED: Order size exceeds maximum allowed">>
    /\ call.ret = "false"

\* C5: an order with a non-positive quantity or price is an input contract
\* violation: validateTradeOrder ends with a distinct InvalidInput outcome,
\* neither approving nor rejecting the order.
C5_InvalidInputDistinct ==
    (/\ call.op = "validateTradeOrder"
     /\ (call.order.quantity <= 0 \/ call.order.price <= 0))
        => call.ret \notin {"true", "false"}

\* C9 as claimed: every RETAIL trader with account_balance < 25,000 evaluated
\* by validateTraderEligibility gets the pattern-day-trader warning, and the
\* rule does not reject.  Read in the claim's favour: of the traders that the
\* rules on experience, jurisdiction and accreditation let through.
C9_PdtWarningEmitted ==
    (/\ call.op = "validateTraderEligibility"
     /\ call.trader.trader_type = "RETAIL"
     /\ call.trader.account_balance < 25000
     /\ call.trader.experience_years >= 2
     /\ call.trader.jurisdiction = "US"
     /\ call.trader.is_accredited)
        => /\ \E i \in DOMAIN call.out : call.out[i] = PdtWarning
           /\ call.ret = "true"

\* C9 amended: a RETAIL trader with account_balance < 25,000 is rejected by
\* an earlier rule (experience, or balance < 50,000) without the warning, and
\* no call of validateTraderEligibility prints the warning at all: no approved
\* decision carries it.
C9_PdtWarningShadowed ==
    call.op = "validateTraderEligibility" =>
        /\ \A i \in DOMAIN call.out : call.out[i] # PdtWarning
        /\ (call.trader.trader_type = "RETAIL" /\ call.trader.account_balance < 25000)
               => (/\ call.ret = "false"
                   /\ call.out \in {<<"REJECTED: Trader lacks minimum experience">>,
                                    <<"REJECTED: Insufficient account balance">>})

\* C9 witness: an experienced, accredited RETAIL trader in the US with balance
\* 20,000 has been evaluated, and was rejected for the balance.
C9_Witness ==
    /\ call.op = "validateTraderEligibility"
    /\ call.trader.trader_type = "RETAIL"
    /\ call.trader.account_balance = 20000
    /\ call.trader.experience_years = 5
    /\ call.trader.jurisdiction = "US"
    /\ call.trader.is_accredited
    /\ call.ret = "false"
    /\ call.out = <<"REJECTED: Insufficient account balance">>

----------------------------------------------------------------------------
(* SpecTrades: a day of validateTradeOrder calls on one TradingRiskManager *)
(* for two traders; every admitted order is a trade processed              *)

\* How far past MAX_TRADES_PER_DAY admitted orders a trader's day is followed.
ExtraTrades == 2

TradeTraders == {SampleTrader, [SampleTrader EXCEPT !.trader_id = 456]}

TradeOrders == {SampleOrder, [SampleOrder EXCEPT !.quantity = 10000]}

InitIdle ==
    /\ daily_trade_counts = EmptyMap
    /\ daily_losses = EmptyMap
    /\ input = NoCall
    /\ call = NoCall
    /\ scaled = NoCall
    /\ fp_trap = FALSE
    /\ loss_bag = EmptyBag
    /\ trades_processed = EmptyMap
    /\ thr = NoThreads
    /\ main = [pc |-> "idle"]

ProcessTradeOrder ==
    \E order \in TradeOrders, trader \in TradeTraders :
        /\ MapGet(trades_processed, trader.trader_id) < MAX_TRADES_PER_DAY + ExtraTrades
        /\ CallValidateTradeOrder(order, trader)
        /\ trades_processed' =
               IF validateTradeOrder(order, trader, daily_trade_counts).ret = "true"
               THEN MapPut(trades_processed, trader.trader_id,
                           MapGet(trades_processed, trader.trader_id) + 1)
               ELSE trades_processed

SpecTrades == InitIdle /\ [][ProcessTradeOrder]_vars

\* The trades-today counter of a trader counts the orders admitted for that trader.
C4_CounterAdvanced ==
    \A id \in DOMAIN trades_processed :
        MapGet(daily_trade_counts, id) = trades_processed[id]

\* A call made for a trader with 100 or more orders admitted already is rejected.
C4_LimitEnforced ==
    (call.op = "validateTradeOrder" /\ call.admitted_before >= 100)
        => call.ret = "false"

\* C4: the trades-today counter of a trader is advanced for each trade
\* processed for that trader, so that once 100 trades of one trader have been
\* processed every further validateTradeOrder call for that trader is rejected.
C4_DailyTradeLimit == C4_CounterAdvanced /\ C4_LimitEnforced

----------------------------------------------------------------------------
(* checkDailyLossLimits                                                    *)

\* daily_losses[trader_id] += trade_loss, kept whatever the method returns
DailyLossesAfter_Rollback(losses, trader_id, trade_loss) ==
    IF MapGet(losses, trader_id) + trade_loss > MAX_DAILY_LOSS
    THEN MapTouch(losses, trader_id)
    ELSE MapPut(losses, trader_id, MapGet(losses, trader_id) + trade_loss)

DailyLossesAfter(losses, trader_id, trade_loss) ==
    MapPut(losses, trader_id, MapGet(losses, trader_id) + trade_loss)

\* The two comparisons, on the value of daily_losses[trader_id] they read.
DailyLossDecision(cumulative) ==
    IF cumulative > MAX_DAILY_LOSS
    THEN Decision("false", <<"TRADING SUSPENDED: Daily loss limit exceeded">>)
    ELSE IF GtTimes(cumulative, MAX_DAILY_LOSS, <<3, 4>>)
    THEN Decision("true", <<"WARNING: Approaching daily loss limit">>)
    ELSE Decision("true", <<>>)

checkDailyLossLimits(losses, trader_id, trade_loss) ==
    DailyLossDecision(MapGet(DailyLossesAfter(losses, trader_id, trade_loss), trader_id))

----------------------------------------------------------------------------
(* SpecLoss: calls of checkDailyLossLimits on one TradingRiskManager, one  *)
(* after the other                                                         *)

\* The number of checkDailyLossLimits calls followed.
MaxLossCalls == 4

LossTraderIds == {123, 456}

\* Losses, a gain and a zero.
TradeLosses == {-50000, 0, 100000, 450000}

CheckDailyLossLimits ==
    \E trader_id \in LossTraderIds, trade_loss \in TradeLosses :
        LET d == checkDailyLossLimits(daily_losses, trader_id, trade_loss) IN
        /\ BagCardinality(loss_bag) < MaxLossCalls
        /\ daily_losses' = DailyLossesAfter(daily_losses, trader_id, trade_loss)
        /\ call' = [op |-> "checkDailyLossLimits", trader_id |-> trader_id,
                    trade_loss |-> trade_loss, ret |-> d.ret, out |-> d.out]
        /\ loss_bag' = loss_bag (+) SetToBag({<<trader_id, trade_loss>>})
        /\ UNCHANGED <<daily_trade_counts, input, scaled, fp_trap, trades_processed,
                       thr, main>>

SpecLoss == InitIdle /\ [][CheckDailyLossLimits]_vars

RECURSIVE SumOver(_, _)
\* The sum of the losses of a bag of calls, over the calls in set S.
SumOver(bag, S) ==
    IF S = {} THEN 0
    ELSE LET e == CHOOSE x \in S : TRUE
         IN e[2] * bag[e] + SumOver(bag, S \ {e})

\* The sum of the losses passed for trader_id, in whatever order.
LossSum(bag, trader_id) == SumOver(bag, {e \in BagToSet(bag) : e[1] = trader_id})

\* C2: after any sequence of checkDailyLossLimits calls the cumulative loss of
\* each trader is the sum of the losses passed for that trader id, the calls
\* that returned false included and the other traders' calls excluded, so it
\* does not depend on the order of the calls; and a call returns false exactly
\* when the cumulative value after its loss is greater than 500,000.
C2_CumulativeLoss ==
    /\ \A id \in LossTraderIds : MapGet(daily_losses, id) = LossSum(loss_bag, id)
    /\ call.op = "checkDailyLossLimits" =>
           (call.ret = "false" <=> LossSum(loss_bag, call.trader_id) > 500000)

\* C2 witness: 100,000 and 450,000 were passed for trader 123 besides a call
\* for trader 456; trader 123 stands at 550,000 and the last call, which took
\* it there, returned false.
C2_Witness ==
    /\ loss_bag = SetToBag({<<123, 100000>>, <<123, 450000>>, <<456, 100000>>})
    /\ call.op = "checkDailyLossLimits"
    /\ call.trader_id = 123
    /\ call.trade_loss = 450000
    /\ call.ret = "false"
    /\ daily_losses[123] = 550000
    /\ daily_losses[456] = 100000

----------------------------------------------------------------------------
(* SpecConc: checkDailyLossLimits called from several threads on one       *)
(* TradingRiskManager.  The class holds no lock and no atomic: the         *)
(* statement daily_losses[trader_id] += trade_loss is a read of the map    *)
(* element, an addition and a write, and the two comparisons that follow   *)
(* read the element again.  Concurrent calls race on the map (undefined    *)
(* behaviour); the outcomes followed here are those of the interleavings   *)
(* of these reads and writes.                                              *)

\* The number of concurrent callers.
NumThreads == 2

Threads == 1 .. NumThreads

ConcTraderIds == {123, 456}

ConcLosses == {100000, 450000}

InitConc ==
    /\ daily_trade_counts = EmptyMap
    /\ daily_losses = EmptyMap
    /\ input = NoCall
    /\ call = NoCall
    /\ scaled = NoCall
    /\ fp_trap = FALSE
    /\ loss_bag = EmptyBag
    /\ trades_processed = EmptyMap
    /\ thr = [t \in Threads |-> [pc |-> "idle"]]
    /\ main = [pc |-> "idle"]

ConcUnchanged ==
    UNCHANGED <<daily_trade_counts, input, call, scaled, fp_trap, loss_bag,
                trades_processed, main>>

\* A thread enters checkDailyLossLimits(trader_id, trade_loss).
ThreadCall(t) ==
    /\ thr[t].pc = "idle"
    /\ \E trader_id \in ConcTraderIds, trade_loss \in ConcLosses :
           thr' = [thr EXCEPT ![t] = [pc |-> "load", trader_id |-> trader_id,
                                      trade_loss |-> trade_loss]]
    /\ UNCHANGED daily_losses
    /\ ConcUnchanged

\* += reads the element; operator[] has inserted it when it was absent.
ThreadLoad(t) ==
    /\ thr[t].pc = "load"
    /\ daily_losses' = MapTouch(daily_losses, thr[t].trader_id)
    /\ thr' = [thr EXCEPT ![t] = [pc |-> "store", trader_id |-> thr[t].trader_id,
                                  trade_loss |-> thr[t].trade_loss,
                                  loaded |-> MapGet(daily_losses, thr[t].trader_id)]]
    /\ ConcUnchanged

\* += writes the sum of the value it read and trade_loss.
ThreadStore(t) ==
    /\ thr[t].pc = "store"
    /\ daily_losses' = MapPut(daily_losses, thr[t].trader_id,
                              thr[t].loaded + thr[t].trade_loss)
    /\ thr' = [thr EXCEPT ![t] = [pc |-> "check", trader_id |-> thr[t].trader_id,
                                  trade_loss |-> thr[t].trade_loss,
                                  own |-> thr[t].loaded + thr[t].trade_loss]]
    /\ ConcUnchanged

\* The limit comparison and, when it passes, the warning comparison; each
\* reads daily_losses[trader_id] as it then is.
ThreadCheck(t) ==
    /\ thr[t].pc = "check"
    /\ LET seen == MapGet(daily_losses, thr[t].trader_id) IN
       thr' = [thr EXCEPT ![t] =
                  IF seen > MAX_DAILY_LOSS
                  THEN [pc |-> "done", trader_id |-> thr[t].trader_id,
                        trade_loss |-> thr[t].trade_loss, own |-> thr[t].own,
                        compared |-> seen, ret |-> DailyLossDecision(seen).ret,
                        out |-> DailyLossDecision(seen).out]
                  ELSE [pc |-> "warn", trader_id |-> thr[t].trader_id,
                        trade_loss |-> thr[t].trade_loss, own |-> thr[t].own,
                        compared |-> seen]]
    /\ UNCHANGED daily_losses
    /\ ConcUnchanged

ThreadWarn(t) ==
    /\ thr[t].pc = "warn"
    /\ LET seen == MapGet(daily_losses, thr[t].trader_id) IN
       thr' = [thr EXCEPT ![t] =
                  [pc |-> "done", trader_id |-> thr[t].trader_id,
                   trade_loss |-> thr[t].trade_loss, own |-> thr[t].own,
                   compared |-> thr[t].compared, ret |-> "true",
                   out |-> IF GtTimes(seen, MAX_DAILY_LOSS, <<3, 4>>)
                           THEN <<"WARNING: Approaching daily loss limit">>
                           ELSE <<>>]]
    /\ UNCHANGED daily_losses
    /\ ConcUnchanged

NextConc ==
    \E t \in Threads :
        \/ ThreadCall(t)
        \/ ThreadLoad(t)
        \/ ThreadStore(t)
        \/ ThreadCheck(t)
        \/ ThreadWarn(t)

SpecConc == InitConc /\ [][NextConc]_vars

RECURSIVE ThreadLossSum(_, _)
\* The sum of the losses the threads of set S passed for trader_id.
ThreadLossSum(S, trader_id) ==
    IF S = {} THEN 0
    ELSE LET t == CHOOSE x \in S : TRUE
         IN (IF thr[t].trader_id = trader_id THEN thr[t].trade_loss ELSE 0)
            + ThreadLossSum(S \ {t}, trader_id)

\* C3: the counter update of checkDailyLossLimits is an atomic
\* increment-and-read: when concurrent calls have all returned, no increment
\* is lost (the cumulative loss of each trader is the sum of the losses
\* passed for it), and each call compared against the limit the value its own
\* increment produced.
C3_AtomicIncrementAndRead ==
    (\A t \in Threads : thr[t].pc = "done") =>
        /\ \A id \in ConcTraderIds :
               MapGet(daily_losses, id) = ThreadLossSum(Threads, id)
        /\ \A t \in Threads :
               /\ thr[t].compared = thr[t].own
               /\ thr[t].ret = "false" <=> thr[t].own > MAX_DAILY_LOSS

----------------------------------------------------------------------------
(* validatePortfolioRisk                                                   *)

RECURSIVE TotalPortfolioValue(_)
TotalPortfolioValue(positions) ==
    IF positions = <<>> THEN 0
    ELSE Head(positions).current_value + TotalPortfolioValue(Tail(positions))

RECURSIVE TotalUnrealizedLoss(_)
\* abs(unrealized_pnl) of the positions at a loss; the amounts are whole, so
\* the int and the double overload of abs agree
TotalUnrealizedLoss(positions) ==
    IF positions = <<>> THEN 0
    ELSE (IF Head(positions).unrealized_pnl < 0
          THEN 0 - Head(positions).unrealized_pnl ELSE 0)
         + TotalUnrealizedLoss(Tail(positions))

RECURSIVE HighRiskExposure(_)
HighRiskExposure(positions) ==
    IF positions = <<>> THEN 0
    ELSE (IF Head(positions).risk_category = "HIGH_RISK"
          THEN Head(positions).current_value ELSE 0)
         + HighRiskExposure(Tail(positions))

\* total_unrealized_loss > account_balance * 0.20
PortfolioLossWarning(loss, balance) ==
    IF GtTimes(loss, balance, <<1, 5>>)
    THEN <<"WARNING: Portfolio losses exceed 20% of account balance">>
    ELSE <<>>

RECURSIVE PositionSizeLoop(_, _)
\* The loop over the positions: it returns false at the first position above
\* MAX_POSITION_SIZE, and warns of each position above 20% of the total before.
PositionSizeLoop(positions, total) ==
    IF positions = <<>> THEN Decision("true", <<>>)
    ELSE IF Head(positions).current_value > MAX_POSITION_SIZE
    THEN Decision("false", <<"VIOLATION: Position size exceeds maximum allowed">>)
    ELSE LET rest == PositionSizeLoop(Tail(positions), total)
         IN Decision(rest.ret,
                (IF GtTimes(Head(positions).current_value, total, <<1, 5>>)
                 THEN <<"WARNING: Single position exceeds 20% of portfolio">>
                 ELSE <<>>) \o rest.out)

HighRiskExceeded(exposure, total) == GtTimes(exposure, total, HIGH_RISK_THRESHOLD)

\* total_portfolio_value / account_balance > MAX_LEVERAGE_RATIO
LeverageExceeded(total, balance) == QuotGt(total, balance, MAX_LEVERAGE_RATIO)

MarginCall_FixedFloor(balance, total) == balance < MAX_DAILY_LOSS

\* account_balance / total_portfolio_value < MARGIN_CALL_THRESHOLD
MarginCall(balance, total) == QuotLt(balance, total, MARGIN_CALL_THRESHOLD)

ForcedLiquidation_Never(balance, total) == FALSE

\* margin_equity_ratio < FORCED_LIQUIDATION
ForcedLiquidation(balance, total) == QuotLt(balance, total, FORCED_LIQUIDATION)

LeverageViolation == "VIOLATION: Leverage ratio exceeds maximum allowed"

MarginCallLine == "MARGIN CALL: Account below margin maintenance requirement"

ForcedLiquidationLine == "FORCED LIQUIDATION: Account below liquidation threshold"

\* A call's result: ret and out, and the outcome of the leverage, margin-call
\* and forced-liquidation checks: "yes", "no", "-" when the call returned
\* before the check, "fault" when its division faulted.
PortfolioDecision(ret, out, leverage, margin_call, forced) ==
    [ret |-> ret, out |-> out, leverage |-> leverage, margin_call |-> margin_call,
     forced |-> forced]

YesNo(b) == IF b THEN "yes" ELSE "no"

\* The two divisions are unguarded.  A division by zero is undefined behaviour:
\* a build with IEEE-754 arithmetic and the exceptions masked goes on with an
\* infinity or a NaN, a build that traps the division (trap) ends the process
\* with SIGFPE, after the lines printed so far.
validatePortfolioRisk(positions, trader, trap) ==
    LET total == TotalPortfolioValue(positions)
        balance == trader.account_balance
        loop == PositionSizeLoop(positions, total)
        out2 == PortfolioLossWarning(TotalUnrealizedLoss(positions), balance) \o loop.out
    IN  IF loop.ret = "false"
        THEN PortfolioDecision("false", out2, "-", "-", "-")
        ELSE IF HighRiskExceeded(HighRiskExposure(positions), total)
        THEN PortfolioDecision("false",
                 out2 \o <<"VIOLATION: High-risk exposure exceeds threshold">>,
                 "-", "-", "-")
        ELSE IF trap /\ balance = 0
        THEN PortfolioDecision("SIGFPE", out2, "fault", "-", "-")
        ELSE IF LeverageExceeded(total, balance)
        THEN PortfolioDecision("false", out2 \o <<LeverageViolation>>, "yes", "-", "-")
        ELSE IF trap /\ total = 0
        THEN PortfolioDecision("SIGFPE", out2, "no", "fault", "fault")
        ELSE LET out3 == out2 \o (IF MarginCall(balance, total)
                                  THEN <<MarginCallLine>> ELSE <<>>)
             IN  IF ForcedLiquidation(balance, total)
                 THEN PortfolioDecision("false", out3 \o <<ForcedLiquidationLine>>,
                          "no", YesNo(MarginCall(balance, total)), "yes")
                 ELSE PortfolioDecision("true", out3,
                          "no", YesNo(MarginCall(balance, total)), "no")

----------------------------------------------------------------------------
(* SpecPortfolio: one call of validatePortfolioRisk for every choice of    *)
(* the portfolio, the balance and the build, then a call on the same       *)
(* portfolio with account_balance and every current_value multiplied by a  *)
(* constant                                                                *)

\* The number of positions of a portfolio.
MaxPositions == 2

\* The largest scaling constant.  A scaling by 1/k of a portfolio is the
\* scaling by k read from the scaled portfolio to the original.
MaxScale == 3

\* Long and short positions, a flat one and one above MAX_POSITION_SIZE.
PositionKinds ==
    [current_value : {-2000000, 0, 2000000, 10000001},
     unrealized_pnl : {-60000, 10000},
     risk_category : {"HIGH_RISK", "LOW_RISK"}]

Portfolios == UNION {[1 .. n -> PositionKinds] : n \in 0 .. MaxPositions}

\* validatePortfolioRisk reads account_balance only; a debit balance and an
\* empty account are among the balances.
PortfolioTraders ==
    {[SampleTrader EXCEPT !.account_balance = b] :
        b \in {-100000, 0, 200000, 250000, 500000}}

ScaledPositions(positions, k) ==
    [i \in DOMAIN positions |->
        [positions[i] EXCEPT !.current_value = k * positions[i].current_value]]

ScaledTrader(trader, k) == [trader EXCEPT !.account_balance = k * trader.account_balance]

InitPortfolio ==
    /\ input \in [op : {"validatePortfolioRisk"}, positions : Portfolios,
                  trader : PortfolioTraders]
    /\ fp_trap \in BOOLEAN
    /\ daily_trade_counts = EmptyMap
    /\ daily_losses = EmptyMap
    /\ call = NoCall
    /\ scaled = NoCall
    /\ loss_bag = EmptyBag
    /\ trades_processed = EmptyMap
    /\ thr = NoThreads
    /\ main = [pc |-> "idle"]

ValidatePortfolioRisk ==
    /\ input.op = "validatePortfolioRisk"
    /\ call = NoCall
    /\ LET d == validatePortfolioRisk(input.positions, input.trader, fp_trap) IN
           call' = [op |-> "validatePortfolioRisk", positions |-> input.positions,
                    trader |-> input.trader, ret |-> d.ret, out |-> d.out,
                    leverage |-> d.leverage, margin_call |-> d.margin_call,
                    forced |-> d.forced]
    /\ UNCHANGED <<daily_trade_counts, daily_losses, input, scaled, fp_trap, loss_bag,
                   trades_processed, thr, main>>

ValidateScaledPortfolio ==
    /\ call.op = "validatePortfolioRisk"
    /\ scaled = NoCall
    /\ \E k \in 1 .. MaxScale :
           LET positions == ScaledPositions(call.positions, k)
               trader == ScaledTrader(call.trader, k)
               d == validatePortfolioRisk(positions, trader, fp_trap)
           IN  scaled' = [op |-> "validatePortfolioRisk", k |-> k,
                          positions |-> positions, trader |-> trader,
                          ret |-> d.ret, out |-> d.out, leverage |-> d.leverage,
                          margin_call |-> d.margin_call, forced |-> d.forced]
    /\ UNCHANGED <<daily_trade_counts, daily_losses, input, call, fp_trap, loss_bag,
                   trades_processed, thr, main>>

NextPortfolio == ValidatePortfolioRisk \/ ValidateScaledPortfolio

SpecPortfolio == InitPortfolio /\ [][NextPortfolio]_vars

Printed(c, line) == \E i \in DOMAIN c.out : c.out[i] = line

\* C6: for every portfolio whose total_value is 0, the empty one included,
\* validatePortfolioRisk raises no division fault, its leverage, margin-call
\* and forced-liquidation checks print nothing and reject nothing, and the
\* outcome is that of the remaining checks (position size, high-risk exposure).
C6_ZeroTotalSkipsRatioChecks ==
    (call.op = "validatePortfolioRisk" /\ TotalPortfolioValue(call.positions) = 0)
        => /\ call.ret # "SIGFPE"
           /\ ~Printed(call, LeverageViolation)
           /\ ~Printed(call, MarginCallLine)
           /\ ~Printed(call, ForcedLiquidationLine)
           /\ call.ret = "false" <=>
                  \/ Printed(call, "VIOLATION: Position size exceeds maximum allowed")
                  \/ Printed(call, "VIOLATION: High-risk exposure exceeds threshold")

\* C7: multiplying account_balance and every position's current_value by a
\* positive constant leaves the result of the leverage check, of the
\* margin-call check and of the forced-liquidation check as it was, in every
\* pair of calls that both came to the check.
C7_ScaleInvariant ==
    scaled.op = "validatePortfolioRisk" =>
        /\ (call.leverage # "-" /\ scaled.leverage # "-")
               => scaled.leverage = call.leverage
        /\ (call.margin_call # "-" /\ scaled.margin_call # "-")
               => scaled.margin_call = call.margin_call
        /\ (call.forced # "-" /\ scaled.forced # "-")
               => scaled.forced = call.forced

\* C7 witness: a portfolio of 2,000,000 on a balance of 250,000 (leverage 8,
\* margin ratio 0.125: a margin call, no liquidation) was evaluated, and again
\* multiplied by 3.
C7_Witness ==
    /\ scaled.op = "validatePortfolioRisk"
    /\ scaled.k = 3
    /\ call.trader.account_balance = 250000
    /\ TotalPortfolioValue(call.positions) = 2000000
    /\ TotalPortfolioValue(scaled.positions) = 6000000
    /\ call.leverage = "no" /\ call.margin_call = "yes" /\ call.forced = "no"
    /\ scaled.leverage = "no" /\ scaled.margin_call = "yes" /\ scaled.forced = "no"

\* margin_equity_ratio = balance / total is below 0.10, for total # 0
RatioBelowTenth(balance, total) ==
    \/ total > 0 /\ 10 * balance < total
    \/ total < 0 /\ 10 * balance > total

\* C10 as claimed: whenever margin_equity_ratio is below 0.10 (total_value not
\* 0), validatePortfolioRisk prints the margin call and then the forced
\* liquidation and returns false.  Read in the claim's favour: of the calls
\* with a positive account_balance that the position-size and high-risk
\* checks let through.
C10_ForcedLiquidationIsVerdict ==
    (/\ call.op = "validatePortfolioRisk"
     /\ TotalPortfolioValue(call.positions) # 0
     /\ RatioBelowTenth(call.trader.account_balance, TotalPortfolioValue(call.positions))
     /\ call.trader.account_balance > 0
     /\ ~Printed(call, "VIOLATION: Position size exceeds maximum allowed")
     /\ ~Printed(call, "VIOLATION: High-risk exposure exceeds threshold"))
        => /\ call.ret = "false"
           /\ Len(call.out) >= 2
           /\ SubSeq(call.out, Len(call.out) - 1, Len(call.out))
                  = <<MarginCallLine, ForcedLiquidationLine>>

\* C10 amended: when margin_equity_ratio is below 0.10 and the call comes to
\* the margin checks (the position-size, high-risk and leverage checks passed),
\* it prints the margin call and then the forced liquidation and returns
\* false.  With account_balance > 0 and total_value > 0 a ratio below 0.10 is a
\* leverage above 10, and the call has returned false at the leverage check
\* before, with neither margin line printed.
C10_ForcedLiquidationAfterLeverage ==
    (/\ call.op = "validatePortfolioRisk"
     /\ TotalPortfolioValue(call.positions) # 0
     /\ RatioBelowTenth(call.trader.account_balance, TotalPortfolioValue(call.positions))
     /\ ~Printed(call, "VIOLATION: Position size exceeds maximum allowed")
     /\ ~Printed(call, "VIOLATION: High-risk exposure exceeds threshold"))
        => /\ call.leverage = "no"
               => /\ call.ret = "false"
                  /\ Len(call.out) >= 2
                  /\ SubSeq(call.out, Len(call.out) - 1, Len(call.out))
                         = <<MarginCallLine, ForcedLiquidationLine>>
           /\ (/\ call.trader.account_balance > 0
               /\ TotalPortfolioValue(call.positions) > 0)
                  => /\ call.ret = "false"
                     /\ call.out[Len(call.out)] = LeverageViolation
                     /\ ~Printed(call, MarginCallLine)
                     /\ ~Printed(call, ForcedLiquidationLine)

\* C10 witness: a short high-risk position of -2,000,000 on a balance of
\* 200,000 (ratio -0.1, leverage -10) came to the margin checks and was
\* rejected by the forced liquidation, after the margin call.
C10_Witness ==
    /\ call.op = "validatePortfolioRisk"
    /\ call.trader.account_balance = 200000
    /\ TotalPortfolioValue(call.positions) = -2000000
    /\ call.leverage = "no"
    /\ call.forced = "yes"
    /\ call.ret = "false"
    /\ call.out = <<MarginCallLine, ForcedLiquidationLine>>

----------------------------------------------------------------------------
(* SpecMain: main, on a new TradingRiskManager.  main's trader and order   *)
(* are the literals SampleTrader and SampleOrder; the same path is         *)
(* followed for other traders and orders beside them.                      *)

MainTraders ==
    {t \in EligibilityTraders :
        /\ t.experience_years \in {1, 5}
        /\ t.account_balance \in {20000, 250000}
        /\ t.jurisdiction \in {"US", "SANCTIONED"}}

MainOrders ==
    {o \in Orders : o.quantity > 0 /\ o.price = 150 /\ o.sector = "TECHNOLOGY"}

InitMain ==
    /\ main \in [pc : {"eligibility"}, trader : MainTraders, order : MainOrders,
                 eligible : {"-"}, valid : {"-"}, groups : {<<>>}, out : {<<>>}]
    /\ daily_trade_counts = EmptyMap
    /\ daily_losses = EmptyMap
    /\ input = NoCall
    /\ call = NoCall
    /\ scaled = NoCall
    /\ fp_trap = FALSE
    /\ loss_bag = EmptyBag
    /\ trades_processed = EmptyMap
    /\ thr = NoThreads

MainUnchanged ==
    UNCHANGED <<daily_losses, input, call, scaled, fp_trap, loss_bag, trades_processed, thr>>

AfterEligibility_Always(ret) == "order"

\* if (risk_manager.validateTraderEligibility(trader)) { ... }
AfterEligibility(ret) == IF ret = "true" THEN "order" ELSE "return"

\* if (risk_manager.validateTradeOrder(order, trader)) { ... }
AfterOrder(ret) == IF ret = "true" THEN "approve" ELSE "return"

MainEligibility ==
    /\ main.pc = "eligibility"
    /\ LET d == validateTraderEligibility(main.trader) IN
           main' = [main EXCEPT !.pc = AfterEligibility(d.ret),
                                !.eligible = d.ret,
                                !.groups = @ \o <<"validateTraderEligibility">>,
                                !.out = @ \o d.out]
    /\ UNCHANGED daily_trade_counts
    /\ MainUnchanged

MainOrder ==
    /\ main.pc = "order"
    /\ LET d == validateTradeOrder(main.order, main.trader, daily_trade_counts) IN
           main' = [main EXCEPT !.pc = AfterOrder(d.ret),
                                !.valid = d.ret,
                                !.groups = @ \o <<"validateTradeOrder">>,
                                !.out = @ \o d.out]
    /\ daily_trade_counts' = TradeCountsAfter(main.order, main.trader, daily_trade_counts)
    /\ MainUnchanged

MainApprove ==
    /\ main.pc = "approve"
    /\ main' = [main EXCEPT !.pc = "return", !.out = @ \o <<"ORDER APPROVED">>]
    /\ UNCHANGED daily_trade_counts
    /\ MainUnchanged

MainReturn ==
    /\ main.pc = "return"
    /\ main' = [main EXCEPT !.pc = "done"]
    /\ UNCHANGED daily_trade_counts
    /\ MainUnchanged

NextMain == MainEligibility \/ MainOrder \/ MainApprove \/ MainReturn

SpecMain == InitMain /\ [][NextMain]_vars

\* C8: in main the groups run in the order eligibility, order validation; the
\* order validation is evaluated only when the eligibility returned true; the
\* order is approved if and only if both groups approve; and for the sample
\* trader and the sample order both groups approve.
C8_FullEvaluation ==
    /\ main.groups \in {<<>>, <<"validateTraderEligibility">>,
                        <<"validateTraderEligibility", "validateTradeOrder">>}
    /\ main.valid # "-" => main.eligible = "true"
    /\ main.pc = "done" =>
           /\ (\E i \in DOMAIN main.out : main.out[i] = "ORDER APPROVED")
                  <=> (main.eligible = "true" /\ main.valid = "true")
           /\ (main.trader = SampleTrader /\ main.order = SampleOrder)
                  => /\ main.eligible = "true"
                     /\ main.valid = "true"
                     /\ main.out = <<"INFO: Checking sector concentration limits",
                                     "ORDER APPROVED">>

\* C8 witness: main has returned for the sample trader and the sample order,
\* and has printed the approval.
C8_Witness ==
    /\ main.pc = "done"
    /\ main.trader = SampleTrader
    /\ main.order = SampleOrder
    /\ main.groups = <<"validateTraderEligibility", "validateTradeOrder">>
    /\ main.out[Len(main.out)] = "ORDER APPROVED"

====
